---- MODULE Spec2Model ----
(***************************************************************************)
(* Cholesky factorisation, Cholesky/triangular solves and indexed access   *)
(* of package mat64 (src/mat64/cholesky.go and the unchecked-bounds index  *)
(* file src/unnamed/part_000).                                             *)
(*                                                                         *)
(* Storage is modelled as the code lays it out: a flat buffer indexed from *)
(* 0, element (r,c) at r*Stride+c.  A float64 is a record [c, v]: a        *)
(* number ("num", carried exactly as an integer), NaN ("nan") or a signed  *)
(* infinity ("inf", v = 1 or -1).  The inputs the specifications draw keep *)
(* every quotient and square root exact, so that the integer result is the *)
(* float64 result; a quotient or root that is not an integer (reached only *)
(* by a changed algorithm) is rounded toward zero onto the integers.       *)
(***************************************************************************)
EXTENDS Integers, Sequences, FiniteSets, TLC

VARIABLES
  dn,       \* the *Dense receiver m (result of the solves, Dense.At/Set)
  rhs,      \* the right-hand side b of a solve, when it is not m itself
  alias,    \* TRUE when the rhs argument is the receiver m itself (b == m)
  vec,      \* a *Vector
  sym,      \* the *SymDense (Cholesky's input a, SymDense.At/SetSym)
  tri,      \* the *TriDense (Cholesky's receiver t, the solves' operand)
  upper,    \* Cholesky's upper argument
  pc,       \* position: "idle", inside Cholesky ("inner", "diag"), "done"
  j, k, d,  \* Cholesky's loop variables
  ok,       \* Cholesky's return value: "true", "false", "none" before a return
  fault,    \* the panic the last call ended in ("" when it did not panic)
  op,       \* the last call: [name, r, c, v]
  ret,      \* the value the last At returned
  old,      \* history: the views as they were when the last call began
  written,  \* history: buffer slots of t written by the running Cholesky
  stale,    \* history: the running Cholesky read a slot it had not written
  dlog,     \* history: the d each diagonal step of the running call computed
  trsm,     \* history: the Trsm calls the last solve made, in order
  sets      \* number of SetSym/SetTri calls made (bounded)

vars == <<dn, rhs, alias, vec, sym, tri, upper, pc, j, k, d, ok, fault, op, ret,
          old, written, stale, dlog, trsm, sets>>

\* ------------------------------------------------------------------ bounds
MaxN == 3        \* largest matrix dimension drawn
MaxCols == 2     \* largest number of right-hand-side columns drawn
MaxSets == 2     \* SetSym/SetTri calls per behaviour

\* ----------------------------------------------------------------- float64
Num(i) == [c |-> "num", v |-> i]
NaN == [c |-> "nan", v |-> 0]
Inf(s) == [c |-> "inf", v |-> s]
Zero == Num(0)

Abs(i) == IF i < 0 THEN -i ELSE i
Sgn(i) == IF i < 0 THEN -1 ELSE 1

\* the sign of a float64 that is not NaN (zero counts as +0)
FSign(x) == IF x.c = "inf" THEN x.v ELSE Sgn(x.v)

FNeg(x) == IF x.c = "nan" THEN NaN ELSE [c |-> x.c, v |-> -x.v]

FAdd(x, y) ==
  CASE x.c = "nan" \/ y.c = "nan" -> NaN
    [] x.c = "inf" /\ y.c = "inf" -> IF x.v = y.v THEN x ELSE NaN
    [] x.c = "inf" -> x
    [] y.c = "inf" -> y
    [] OTHER -> Num(x.v + y.v)

FSub(x, y) == FAdd(x, FNeg(y))

FMul(x, y) ==
  CASE x.c = "nan" \/ y.c = "nan" -> NaN
    [] x.c = "inf" \/ y.c = "inf" ->
         IF (x.c = "num" /\ x.v = 0) \/ (y.c = "num" /\ y.v = 0)
         THEN NaN ELSE Inf(FSign(x) * FSign(y))
    [] OTHER -> Num(x.v * y.v)

FDiv(x, y) ==
  CASE x.c = "nan" \/ y.c = "nan" -> NaN
    [] x.c = "inf" /\ y.c = "inf" -> NaN
    [] x.c = "inf" -> Inf(FSign(x) * FSign(y))
    [] y.c = "inf" -> Zero
    [] y.v = 0 -> IF x.v = 0 THEN NaN ELSE Inf(FSign(x))
    [] OTHER -> Num(Sgn(x.v) * Sgn(y.v) * (Abs(x.v) \div Abs(y.v)))

\* x <= 0 as Go evaluates it: false when x is NaN
FLeZero(x) ==
  CASE x.c = "nan" -> FALSE
    [] x.c = "inf" -> x.v < 0
    [] OTHER -> x.v <= 0

\* x > 0, false when x is NaN
FGtZero(x) ==
  CASE x.c = "nan" -> FALSE
    [] x.c = "inf" -> x.v > 0
    [] OTHER -> x.v > 0

\* math.Max(x, 0): +Inf if x is +Inf, NaN if x is NaN
FMaxZero(x) ==
  CASE x.c = "nan" -> NaN
    [] x.c = "inf" -> IF x.v > 0 THEN x ELSE Zero
    [] OTHER -> IF x.v > 0 THEN x ELSE Zero

RECURSIVE ISqrtFrom(_, _)
ISqrtFrom(n, r) == IF (r + 1) * (r + 1) > n THEN r ELSE ISqrtFrom(n, r + 1)

\* math.Sqrt(x): NaN for x < 0 or NaN, +Inf for +Inf
FSqrt(x) ==
  CASE x.c = "nan" -> NaN
    [] x.c = "inf" -> IF x.v > 0 THEN x ELSE NaN
    [] OTHER -> IF x.v < 0 THEN NaN ELSE Num(ISqrtFrom(x.v, 0))

\* a buffer of len zeros, indexed from 0 (make([]float64, len))
Zeros(len) == [i \in 0..(len - 1) |-> Zero]
\* a buffer of len slots holding distinct numbers base+1, base+2, ...
Ramp(len, base) == [i \in 0..(len - 1) |-> Num(base + i + 1)]

\* the panics
ErrRowAccess == "mat64: row index out of range"
ErrColAccess == "mat64: column index out of range"
ErrShape == "mat64: dimension mismatch"
ErrTriSet == "mat64: triangular set out of bounds"
badTriangle == "mat64: invalid triangle"
ErrIndex == "runtime error: index out of range"
NoFault == ""

\* what a call that panicked returns in place of a value
NoVal == [c |-> "none", v |-> 0]
Outcome(f, x) == [fault |-> f, val |-> x]

\* data[i] of a Go slice: a run-time panic outside the slice
InSlice(data, i) == i \in DOMAIN data

\* ----------------------------------------------------- indexed access: Dense
Dense_at(m, r, c) == m.Data[r * m.Stride + c]

Dense_At(m, r, c) ==
  IF r >= m.Rows \/ r < 0 THEN Outcome(ErrRowAccess, NoVal)
  ELSE IF c >= m.Cols \/ c < 0 THEN Outcome(ErrColAccess, NoVal)
  ELSE IF ~InSlice(m.Data, r * m.Stride + c) THEN Outcome(ErrIndex, NoVal)
  ELSE Outcome(NoFault, Dense_at(m, r, c))

Dense_set(m, r, c, v) == [m EXCEPT !.Data[r * m.Stride + c] = v]

Dense_Set(m, r, c, v) ==
  IF r >= m.Rows \/ r < 0 THEN Outcome(ErrRowAccess, m)
  ELSE IF c >= m.Cols \/ c < 0 THEN Outcome(ErrColAccess, m)
  ELSE IF ~InSlice(m.Data, r * m.Stride + c) THEN Outcome(ErrIndex, m)
  ELSE Outcome(NoFault, Dense_set(m, r, c, v))

\* ---------------------------------------------------- indexed access: Vector
Vector_at(m, r) == m.Data[r * m.Inc]

Vector_At(m, r, c) ==
  IF r < 0 \/ r >= m.n THEN Outcome(ErrRowAccess, NoVal)
  ELSE IF c # 0 THEN Outcome(ErrColAccess, NoVal)
  ELSE IF ~InSlice(m.Data, r * m.Inc) THEN Outcome(ErrIndex, NoVal)
  ELSE Outcome(NoFault, Vector_at(m, r))

Vector_set(m, r, v) == [m EXCEPT !.Data[r * m.Inc] = v]

Vector_Set(m, r, c, v) ==
  IF r < 0 \/ r >= m.n THEN Outcome(ErrRowAccess, m)
  ELSE IF c # 0 THEN Outcome(ErrColAccess, m)
  ELSE IF ~InSlice(m.Data, r * m.Inc) THEN Outcome(ErrIndex, m)
  ELSE Outcome(NoFault, Vector_set(m, r, v))

\* -------------------------------------------------- indexed access: SymDense
\* the buffer slot of (r,c): the pair is swapped to (min, max) first
SymDense_slot(s, r, c) == IF r > c THEN c * s.Stride + r ELSE r * s.Stride + c

SymDense_at(s, r, c) == s.Data[SymDense_slot(s, r, c)]

SymDense_At(s, r, c) ==
  IF r >= s.N \/ r < 0 THEN Outcome(ErrRowAccess, NoVal)
  ELSE IF c >= s.N \/ c < 0 THEN Outcome(ErrColAccess, NoVal)
  ELSE IF ~InSlice(s.Data, SymDense_slot(s, r, c)) THEN Outcome(ErrIndex, NoVal)
  ELSE Outcome(NoFault, SymDense_at(s, r, c))

\* changed: the pair is not swapped before the write
SymDense_set_noSwap(s, r, c, v) == [s EXCEPT !.Data[r * s.Stride + c] = v]

SymDense_set(s, r, c, v) == [s EXCEPT !.Data[SymDense_slot(s, r, c)] = v]

SymDense_SetSym(s, r, c, v) ==
  IF r >= s.N \/ r < 0 THEN Outcome(ErrRowAccess, s)
  ELSE IF c >= s.N \/ c < 0 THEN Outcome(ErrColAccess, s)
  ELSE IF ~InSlice(s.Data, SymDense_slot(s, r, c)) THEN Outcome(ErrIndex, s)
  ELSE Outcome(NoFault, SymDense_set(s, r, c, v))

\* -------------------------------------------------- indexed access: TriDense
TriDense_at(t, r, c) ==
  IF t.Uplo = "Upper"
  THEN IF r > c THEN Zero ELSE t.Data[r * t.Stride + c]
  ELSE IF r < c THEN Zero ELSE t.Data[r * t.Stride + c]

\* whether at(r,c) indexes the buffer at all
TriDense_reads(t, r, c) == IF t.Uplo = "Upper" THEN r <= c ELSE r >= c

\* changed: the structural zero is returned before the range is checked
TriDense_At_zeroFirst(t, r, c) ==
  IF ~TriDense_reads(t, r, c) THEN Outcome(NoFault, Zero)
  ELSE IF r >= t.N \/ r < 0 THEN Outcome(ErrRowAccess, NoVal)
  ELSE IF c >= t.N \/ c < 0 THEN Outcome(ErrColAccess, NoVal)
  ELSE IF ~InSlice(t.Data, r * t.Stride + c) THEN Outcome(ErrIndex, NoVal)
  ELSE Outcome(NoFault, TriDense_at(t, r, c))

TriDense_At(t, r, c) ==
  IF r >= t.N \/ r < 0 THEN Outcome(ErrRowAccess, NoVal)
  ELSE IF c >= t.N \/ c < 0 THEN Outcome(ErrColAccess, NoVal)
  ELSE IF TriDense_reads(t, r, c) /\ ~InSlice(t.Data, r * t.Stride + c)
       THEN Outcome(ErrIndex, NoVal)
  ELSE Outcome(NoFault, TriDense_at(t, r, c))

TriDense_set(t, r, c, v) == [t EXCEPT !.Data[r * t.Stride + c] = v]

\* changed: the write is not refused outside the stored triangle
TriDense_SetTri_unchecked(t, r, c, v) ==
  IF r >= t.N \/ r < 0 THEN Outcome(ErrRowAccess, t)
  ELSE IF c >= t.N \/ c < 0 THEN Outcome(ErrColAccess, t)
  ELSE IF ~InSlice(t.Data, r * t.Stride + c) THEN Outcome(ErrIndex, t)
  ELSE Outcome(NoFault, TriDense_set(t, r, c, v))

TriDense_SetTri(t, r, c, v) ==
  IF r >= t.N \/ r < 0 THEN Outcome(ErrRowAccess, t)
  ELSE IF c >= t.N \/ c < 0 THEN Outcome(ErrColAccess, t)
  ELSE IF t.Uplo = "Upper" /\ r > c THEN Outcome(ErrTriSet, t)
  ELSE IF t.Uplo = "Lower" /\ r < c THEN Outcome(ErrTriSet, t)
  ELSE IF ~InSlice(t.Data, r * t.Stride + c) THEN Outcome(ErrIndex, t)
  ELSE Outcome(NoFault, TriDense_set(t, r, c, v))

\* ------------------------------------------------------------- TriDense state
\* the zero TriDense: no dimension, no buffer, no orientation
EmptyTri == [N |-> 0, Stride |-> 0, Uplo |-> "Unset", Data |-> Zeros(0)]

\* t.isZero(): the view is empty
isZero(t) == t.N = 0

\* use(f, l): a buffer of l zeroed elements
use(f, l) == Zeros(l)

\* t.Reset(): back to the empty view
Reset(t) == EmptyTri

\* a.Symmetric(): the dimension of the symmetric matrix
Symmetric(a) == a.N

\* ----------------------------------------------------------- dot products
\* asm.DdotInc(x, y, n, incX, incY, ix, iy): sum of x[ix+i*incX]*y[iy+i*incY]
RECURSIVE DdotIncFrom(_, _, _, _, _, _, _, _)
DdotIncFrom(x, y, n, incX, incY, ix, iy, sum) ==
  IF n = 0 THEN sum
  ELSE DdotIncFrom(x, y, n - 1, incX, incY, ix + incX, iy + incY,
                   FAdd(sum, FMul(x[ix], y[iy])))

DdotInc(x, y, n, incX, incY, ix, iy) ==
  DdotIncFrom(x, y, n, incX, incY, ix, iy, Zero)

\* the slots DdotInc reads
DdotIncSlots(n, incX, incY, ix, iy) ==
  {ix + i * incX : i \in 0..(n - 1)} \cup {iy + i * incY : i \in 0..(n - 1)}

\* data[lo:hi]
Slice(data, lo, hi) == [i \in 0..(hi - lo - 1) |-> data[lo + i]]

\* asm.DdotUnitary(x, y): sum of x[i]*y[i] over the indices of x
RECURSIVE DdotUnitaryFrom(_, _, _, _)
DdotUnitaryFrom(x, y, i, sum) ==
  IF i \notin DOMAIN x THEN sum
  ELSE DdotUnitaryFrom(x, y, i + 1, FAdd(sum, FMul(y[i], x[i])))

DdotUnitary(x, y) == DdotUnitaryFrom(x, y, 0, Zero)

\* ----------------------------------------------------------------- Cholesky
\* The state of one call of t.Cholesky(a, upper): the receiver t, the loop
\* variables, the position, the result, and the call's history.
CallState(t, jj, kk, dd, p, o, f, w, st, dl) ==
  [t |-> t, j |-> jj, k |-> kk, d |-> dd, pc |-> p, ok |-> o, fault |-> f,
   written |-> w, stale |-> st, dlog |-> dl]

\* where the loops stand once column jj begins: its inner loop runs for k < jj
ColumnStart(jj) == IF 0 < jj THEN "inner" ELSE "diag"

\* changed: d < 0 in place of d <= 0
Chol_notPositive_strict(x) == x.c # "nan" /\ x.v < 0

\* d <= 0, the test that ends the factorisation
Chol_notPositive(x) == FLeZero(x)

\* changed: the square root is left out
Chol_pivot_noSqrt(x) == FMaxZero(x)

\* math.Sqrt(math.Max(d, 0)), the diagonal entry written
Chol_pivot(x) == FSqrt(FMaxZero(x))

\* changed: a receiver of the wrong size is reallocated like an empty one
Chol_enter_resize(t, a, up) ==
  LET n == Symmetric(a)
      t2 == [N |-> n, Stride |-> n, Uplo |-> IF up THEN "Upper" ELSE "Lower",
             Data |-> use(t.Data, n * n)]
  IN IF 0 < n
     THEN CallState(t2, 0, 0, Zero, ColumnStart(0), "none", NoFault, {}, FALSE, <<>>)
     ELSE CallState(t2, 0, 0, Zero, "done", "true", NoFault, {}, FALSE, <<>>)

\* lines 23-38 and 60: the shape check, the allocation and the orientation tag
Chol_enter(t, a, up) ==
  LET n == Symmetric(a) IN
  IF ~isZero(t) /\ n # t.N
  THEN CallState(t, 0, 0, Zero, "done", "none", ErrShape, {}, FALSE, <<>>)
  ELSE
    LET t1 == IF isZero(t)
              THEN [N |-> n, Stride |-> n, Uplo |-> "Unset",
                    Data |-> use(t.Data, n * n)]
              ELSE t
        t2 == [t1 EXCEPT !.Uplo = IF up THEN "Upper" ELSE "Lower"]
    IN IF 0 < n
       THEN CallState(t2, 0, 0, Zero, ColumnStart(0), "none", NoFault, {}, FALSE, <<>>)
       ELSE CallState(t2, 0, 0, Zero, "done", "true", NoFault, {}, FALSE, <<>>)

\* changed: the dot products run one element too far
Chol_dot_offByOne(cs, up) ==
  LET mat == cs.t.Data
      stride == cs.t.Stride
  IN IF up
     THEN DdotInc(mat, mat, cs.k + 1, stride, stride, cs.k, cs.j)
     ELSE DdotUnitary(Slice(mat, cs.k * stride, cs.k * stride + cs.k + 1),
                      Slice(mat, cs.j * stride, cs.j * stride + cs.k + 1))

\* the dot product of one inner iteration: lines 42-47 (upper), 64 (lower)
Chol_dot(cs, up) ==
  LET mat == cs.t.Data
      stride == cs.t.Stride
  IN IF up
     THEN DdotInc(mat, mat, cs.k, stride, stride, cs.k, cs.j)
     ELSE DdotUnitary(Slice(mat, cs.k * stride, cs.k * stride + cs.k),
                      Slice(mat, cs.j * stride, cs.j * stride + cs.k))

\* the buffer slots one inner iteration reads: the dot product's and t.at(k,k)'s
Chol_readSlots(cs, up) ==
  LET stride == cs.t.Stride IN
  (IF up
   THEN DdotIncSlots(cs.k, stride, stride, cs.k, cs.j)
   ELSE {cs.k * stride + i : i \in 0..(cs.k - 1)}
        \cup {cs.j * stride + i : i \in 0..(cs.k - 1)})
  \cup {cs.k * stride + cs.k}

\* one iteration of the inner loop: lines 42-50 (upper), 64-67 (lower)
Chol_inner(cs, a, up) ==
  LET s0 == Chol_dot(cs, up)
      s == FDiv(FSub(SymDense_at(a, cs.j, cs.k), s0), TriDense_at(cs.t, cs.k, cs.k))
      r == IF up THEN cs.k ELSE cs.j
      c == IF up THEN cs.j ELSE cs.k
      t1 == TriDense_set(cs.t, r, c, s)
  IN CallState(t1, cs.j, cs.k + 1, FAdd(cs.d, FMul(s, s)),
               IF cs.k + 1 < cs.j THEN "inner" ELSE "diag",
               cs.ok, cs.fault,
               cs.written \cup {r * cs.t.Stride + c},
               cs.stale \/ ~(Chol_readSlots(cs, up) \subseteq cs.written),
               cs.dlog)

\* the diagonal step of column j: lines 52-57 (upper), 69-74 (lower), and the
\* return true of line 78 after the last column
Chol_diag(cs, a, up) ==
  LET d1 == FSub(SymDense_at(a, cs.j, cs.j), cs.d) IN
  IF Chol_notPositive(d1)
  THEN CallState(Reset(cs.t), cs.j, cs.k, d1, "done", "false", cs.fault,
                 cs.written, cs.stale, Append(cs.dlog, d1))
  ELSE
    LET t1 == TriDense_set(cs.t, cs.j, cs.j, Chol_pivot(d1))
        w1 == cs.written \cup {cs.j * cs.t.Stride + cs.j}
    IN IF cs.j + 1 < cs.t.N
       THEN CallState(t1, cs.j + 1, 0, Zero, ColumnStart(cs.j + 1), cs.ok,
                      cs.fault, w1, cs.stale, Append(cs.dlog, d1))
       ELSE CallState(t1, cs.j + 1, cs.k, d1, "done", "true",
                      cs.fault, w1, cs.stale, Append(cs.dlog, d1))

Chol_step(cs, a, up) ==
  IF cs.pc = "inner" THEN Chol_inner(cs, a, up) ELSE Chol_diag(cs, a, up)

RECURSIVE Chol_run(_, _, _)
Chol_run(cs, a, up) ==
  IF cs.pc = "done" THEN cs ELSE Chol_run(Chol_step(cs, a, up), a, up)

\* t.Cholesky(a, upper) run from entry to its return or panic
Cholesky(t, a, up) == Chol_run(Chol_enter(t, a, up), a, up)

\* ------------------------------------------------------------------ inputs
DiagVals == {1, 2}       \* diagonal entries of the exact factors drawn
OffVals == {-1, 0, 1}    \* off-diagonal entries of the exact factors drawn
Junk == Num(55)          \* what a buffer slot outside a view's content holds

Idx(n) == 0..(n - 1)

\* The lower-triangular n x n integer matrices drawn: row r holds off[r] in
\* every column left of the diagonal and dg[r] on the diagonal.
LowerFactors(n) ==
  {[p \in Idx(n) \X Idx(n) |->
      IF p[1] = p[2] THEN dg[p[1]] ELSE IF p[1] > p[2] THEN off[p[1]] ELSE 0] :
     dg \in [Idx(n) -> DiagVals], off \in [Idx(n) -> OffVals]}

RECURSIVE SumTo(_, _)
\* f[0] + ... + f[n-1]
SumTo(f, n) == IF n = 0 THEN 0 ELSE SumTo(f, n - 1) + f[n - 1]

\* L * L^T
Gram(L, n) ==
  [p \in Idx(n) \X Idx(n) |->
     LET term == [i \in Idx(n) |-> L[<<p[1], i>>] * L[<<p[2], i>>]]
     IN SumTo(term, n)]

\* the sum of squares of row r of L left of the diagonal
RowSquares(L, r) ==
  LET sq == [i \in Idx(r) |-> L[<<r, i>>] * L[<<r, i>>]] IN SumTo(sq, r)

\* A SymDense of dimension n and row stride st holding the symmetric matrix M
\* (a function on index pairs to float64): the upper triangle holds M, the
\* slots below the diagonal and the padding hold Junk.
SymOf(M, n, st) ==
  [N |-> n, Stride |-> st,
   Data |-> [i \in 0..(n * st - 1) |->
               LET r == i \div st
                   c == i % st
               IN IF c >= n \/ r > c THEN Junk ELSE M[<<r, c>>]]]

NumMatrix(M) == [p \in DOMAIN M |-> Num(M[p])]

\* A = L*L^T with the diagonal entry of column jd replaced: "zero" makes the
\* diagonal candidate d of column jd exactly 0, "neg" makes it -1, "nan" puts
\* NaN there; "none" leaves A alone.
Defects == {"none", "zero", "neg", "nan"}
Defective(L, n, jd, kind) ==
  LET A == NumMatrix(Gram(L, n)) IN
  CASE kind = "none" -> A
    [] kind = "zero" -> [A EXCEPT ![<<jd, jd>>] = Num(RowSquares(L, jd))]
    [] kind = "neg" -> [A EXCEPT ![<<jd, jd>>] = Num(RowSquares(L, jd) - 1)]
    [] OTHER -> [A EXCEPT ![<<jd, jd>>] = NaN]

\* the symmetric inputs drawn for Cholesky
CholInputs ==
  UNION {{SymOf(Defective(L, n, jd, kind), n, n) :
            L \in LowerFactors(n),
            jd \in Idx(n),
            kind \in Defects} \cup
         {SymOf(NumMatrix(Gram(L, n)), n, n) : L \in LowerFactors(n)} :
         n \in 0..MaxN}

\* A non-empty TriDense of dimension n, stride st and orientation u whose whole
\* buffer holds earlier values.
UsedTri(n, st, u) ==
  [N |-> n, Stride |-> st, Uplo |-> u, Data |-> Ramp(n * st, 60)]

\* the receivers drawn for a Cholesky of an n x n input
CholTargets(n) ==
  {EmptyTri, UsedTri(n + 1, n + 1, "Lower")} \cup
  (IF n > 0
   THEN {UsedTri(n, n, "Upper"), UsedTri(n, n + 1, "Lower")}
   ELSE {})

\* ------------------------------------------------ specification: Cholesky
NoOp == [name |-> "", r |-> 0, c |-> 0, v |-> Zero]
Called(name, r, c, v) == [name |-> name, r |-> r, c |-> c, v |-> v]
NoDense == [Rows |-> 0, Cols |-> 0, Stride |-> 0, Data |-> Zeros(0)]
NoVec == [n |-> 0, Inc |-> 0, Data |-> Zeros(0)]
NoSym == [N |-> 0, Stride |-> 0, Data |-> Zeros(0)]
NoOld == [dn |-> NoDense, rhs |-> NoDense, vec |-> NoVec, sym |-> NoSym,
          tri |-> EmptyTri]

\* the views as they are now, kept when a call begins
Snapshot == [dn |-> dn, rhs |-> rhs, vec |-> vec, sym |-> sym, tri |-> tri]

\* the running call as a call state, and back
CS == CallState(tri, j, k, d, pc, ok, fault, written, stale, dlog)
SetCS(n) ==
  /\ tri' = n.t /\ j' = n.j /\ k' = n.k /\ d' = n.d /\ pc' = n.pc
  /\ ok' = n.ok /\ fault' = n.fault /\ written' = n.written
  /\ stale' = n.stale /\ dlog' = n.dlog

InitChol ==
  /\ sym \in CholInputs
  /\ tri \in CholTargets(sym.N)
  /\ upper \in BOOLEAN
  /\ dn = NoDense /\ rhs = NoDense /\ alias = FALSE /\ vec = NoVec
  /\ pc = "idle" /\ j = 0 /\ k = 0 /\ d = Zero /\ ok = "none"
  /\ fault = NoFault /\ op = NoOp /\ ret = NoVal /\ old = NoOld
  /\ written = {} /\ stale = FALSE /\ dlog = <<>> /\ trsm = <<>> /\ sets = 0

\* t.Cholesky(a, upper) is called: lines 23-38, 60
CholCall ==
  /\ pc = "idle"
  /\ SetCS(Chol_enter(tri, sym, upper))
  /\ old' = Snapshot
  /\ op' = [NoOp EXCEPT !.name = "Cholesky"]
  /\ UNCHANGED <<dn, rhs, alias, vec, sym, upper, ret, trsm, sets>>

\* one iteration of the loop over k
CholInner ==
  /\ pc = "inner"
  /\ SetCS(Chol_inner(CS, sym, upper))
  /\ UNCHANGED <<dn, rhs, alias, vec, sym, upper, op, ret, old, trsm, sets>>

\* the diagonal step of a column whose d is not positive: Reset, return false
CholDiagFail ==
  /\ pc = "diag"
  /\ Chol_diag(CS, sym, upper).ok = "false"
  /\ SetCS(Chol_diag(CS, sym, upper))
  /\ UNCHANGED <<dn, rhs, alias, vec, sym, upper, op, ret, old, trsm, sets>>

\* the diagonal step of a column that is written (and, after the last column,
\* return true)
CholDiagWrite ==
  /\ pc = "diag"
  /\ Chol_diag(CS, sym, upper).ok # "false"
  /\ SetCS(Chol_diag(CS, sym, upper))
  /\ UNCHANGED <<dn, rhs, alias, vec, sym, upper, op, ret, old, trsm, sets>>

NextChol == CholCall \/ CholInner \/ CholDiagFail \/ CholDiagWrite

SpecChol == InitChol /\ [][NextChol]_vars

\* ------------------------------------------------------ claims: Cholesky
\* what a caller observes of a TriDense: dimension, orientation, every At
TriView(t) ==
  [N |-> t.N, Uplo |-> t.Uplo,
   At |-> [p \in Idx(t.N) \X Idx(t.N) |-> TriDense_At(t, p[1], p[2])]]

\* the matrix F * F^T (lower) or F^T * F (upper) of the factor read through At
FactorProduct(t, up) ==
  [p \in Idx(t.N) \X Idx(t.N) |->
     LET term == [i \in Idx(t.N) |->
           IF up
           THEN TriDense_At(t, i, p[1]).val.v * TriDense_At(t, i, p[2]).val.v
           ELSE TriDense_At(t, p[1], i).val.v * TriDense_At(t, p[2], i).val.v]
     IN Num(SumTo(term, t.N))]

OrientationOf(up) == IF up THEN "Upper" ELSE "Lower"

\* C1: Cholesky of A = L0*L0^T (L0 lower triangular with positive diagonal) on
\* an empty receiver returns true and leaves the receiver n x n, tagged as
\* upper asks, reading through At exactly L0 (lower) or L0^T (upper), so that
\* the product of the factor with its transpose is A.
C1_FactorOfExactInput ==
  \A L0 \in LowerFactors(sym.N) :
    (/\ pc = "done"
     /\ isZero(old.tri)
     /\ sym = SymOf(NumMatrix(Gram(L0, sym.N)), sym.N, sym.N))
    => /\ ok = "true"
       /\ fault = NoFault
       /\ tri.N = sym.N
       /\ tri.Uplo = OrientationOf(upper)
       /\ \A r \in Idx(sym.N), c \in Idx(sym.N) :
            /\ TriDense_At(tri, r, c) =
                 Outcome(NoFault, Num(IF upper THEN L0[<<c, r>>] ELSE L0[<<r, c>>]))
            /\ FactorProduct(tri, upper)[<<r, c>>] = SymDense_At(sym, r, c).val

\* C1 happens: a 3 x 3 upper factor with a nonzero off-diagonal entry and a
\* diagonal entry other than 1, computed into an empty receiver
C1_Witness ==
  /\ pc = "done" /\ ok = "true" /\ isZero(old.tri) /\ upper
  /\ sym.N = 3
  /\ TriDense_At(tri, 1, 2).val = Num(-1)
  /\ TriDense_At(tri, 1, 1).val = Num(2)

\* C2: a diagonal candidate d <= 0 is the last one the call computes: the call
\* is over at that column, has returned false, and the receiver is the empty
\* view (dimension 0, every At out of range).
C2_NonPositivePivotStops ==
  \A i \in 1..Len(dlog) :
    FLeZero(dlog[i]) =>
      /\ i = Len(dlog)
      /\ j = i - 1
      /\ pc = "done"
      /\ ok = "false"
      /\ tri.N = 0
      /\ tri.Data = Zeros(0)
      /\ \A r \in 0..MaxN, c \in 0..MaxN : TriDense_At(tri, r, c).fault # NoFault

\* C2 happens: a reused 3 x 3 receiver, the second column's candidate is 0
C2_Witness ==
  /\ pc = "done" /\ ok = "false" /\ Len(dlog) = 2 /\ dlog[2] = Zero
  /\ sym.N = 3 /\ old.tri.N = 3 /\ written # {}

\* C7: an empty receiver is allocated n x n (stride n, n*n elements); a
\* non-empty receiver of another dimension makes the call panic with ErrShape
\* before anything is written: the receiver is as it was, and the call has
\* returned neither true nor false.  The panic happens in no other case.
C7_ShapeCheck ==
  /\ (op.name = "Cholesky" /\ isZero(old.tri)) =>
       /\ fault = NoFault
       /\ (pc \in {"inner", "diag"} \/ ok = "true") =>
            /\ tri.N = sym.N /\ tri.Stride = sym.N
            /\ DOMAIN tri.Data = 0..(sym.N * sym.N - 1)
  /\ (op.name = "Cholesky" /\ ~isZero(old.tri) /\ old.tri.N # sym.N) =>
       /\ fault = ErrShape /\ pc = "done" /\ ok = "none"
       /\ tri = old.tri /\ written = {} /\ dlog = <<>>
  /\ fault = ErrShape => (~isZero(old.tri) /\ old.tri.N # sym.N /\ ok = "none")

\* C7 happens: a 3 x 3 receiver is handed a 2 x 2 input
C7_Witness ==
  /\ op.name = "Cholesky" /\ fault = ErrShape /\ old.tri.N = 3 /\ sym.N = 2

\* the allocating case of C7 is reachable too
C7_WitnessAlloc ==
  /\ op.name = "Cholesky" /\ isZero(old.tri) /\ tri.N = 3 /\ ok = "true"

\* C8: every diagonal entry is written with d > 0: each d of the call's
\* diagonal steps, except one that ended the call with false, is > 0, and the
\* diagonal entry written for it is > 0.
C8_DiagonalWritesPositive ==
  \A i \in 1..Len(dlog) :
    ~(i = Len(dlog) /\ ok = "false") =>
      /\ FGtZero(dlog[i])
      /\ FMaxZero(dlog[i]) = dlog[i]
      /\ FGtZero(TriDense_at(tri, i - 1, i - 1))

\* C9: a call on a non-empty receiver of the right size returns what the same
\* call on an empty receiver returns and leaves the same view (dimension,
\* orientation, every At), and no step of a call reads a buffer slot that the
\* call has not written.
C9_IndependentOfPriorContents ==
  /\ ~stale
  /\ (pc = "done" /\ fault = NoFault) =>
       LET ref == Cholesky(EmptyTri, sym, upper) IN
       /\ ok = ref.ok
       /\ TriView(tri) = TriView(ref.t)

\* C9 happens: a 3 x 3 receiver with stride 4 that held other values and the
\* other orientation now holds an upper factor with a nonzero dot product
C9_Witness ==
  /\ pc = "done" /\ ok = "true" /\ upper
  /\ old.tri.N = 3 /\ old.tri.Stride = 4 /\ old.tri.Uplo = "Lower"
  /\ old.tri.Data[0] # Zero
  /\ TriDense_At(tri, 0, 1).val = Num(-1) /\ TriDense_At(tri, 0, 2).val = Num(1)
  /\ TriDense_At(tri, 1, 2).val = Num(1)

\* ------------------------------------------------------------------ solves
\* m.isZero() of a Dense: the view is empty
Dense_isZero(m) == m.Stride = 0

\* m.reuseAs(r, c): an empty receiver becomes a zeroed r x c matrix, a
\* non-empty one must be r x c already
reuseAs(m, r, c) ==
  IF Dense_isZero(m)
  THEN Outcome(NoFault, [Rows |-> r, Cols |-> c, Stride |-> c, Data |-> Zeros(r * c)])
  ELSE IF r # m.Rows \/ c # m.Cols THEN Outcome(ErrShape, m)
  ELSE Outcome(NoFault, m)

Min(x, y) == IF x < y THEN x ELSE y

\* m.Copy(b): the elements of b are copied into m, place by place
Copy(m, b) ==
  [m EXCEPT !.Data =
     [i \in DOMAIN m.Data |->
        LET r == i \div m.Stride
            c == i % m.Stride
        IN IF r < Min(m.Rows, b.Rows) /\ c < Min(m.Cols, b.Cols)
           THEN Dense_at(b, r, c) ELSE m.Data[i]]]

\* getBlasTriangular(t): the raw triangular matrix of t
getBlasTriangular(t) == t

\* element (i, kk) of op(A)
Trsm_elem(ta, tA, i, kk) ==
  IF tA = "Trans" THEN ta.Data[kk * ta.Stride + i] ELSE ta.Data[i * ta.Stride + kk]

\* op(A) is lower triangular: the rows are solved from the first down
Trsm_forward(ta, tA) == (ta.Uplo = "Lower") <=> (tA = "NoTrans")

\* sum over kk in lo..hi of op(A)[i,kk] * B[kk,c]
RECURSIVE Trsm_sum(_, _, _, _, _, _, _, _)
Trsm_sum(ta, tA, B, i, c, lo, hi, acc) ==
  IF lo > hi THEN acc
  ELSE Trsm_sum(ta, tA, B, i, c, lo + 1, hi,
                FAdd(acc, FMul(Trsm_elem(ta, tA, i, lo), Dense_at(B, lo, c))))

\* row i of the solution, given the rows solved before it
Trsm_row(ta, tA, B, i) ==
  [B EXCEPT !.Data =
     [x \in DOMAIN B.Data |->
        IF x \div B.Stride = i /\ x % B.Stride < B.Cols
        THEN LET c == x % B.Stride
                 known == IF Trsm_forward(ta, tA)
                          THEN Trsm_sum(ta, tA, B, i, c, 0, i - 1, Zero)
                          ELSE Trsm_sum(ta, tA, B, i, c, i + 1, ta.N - 1, Zero)
             IN FDiv(FSub(B.Data[x], known), Trsm_elem(ta, tA, i, i))
        ELSE B.Data[x]]]

RECURSIVE Trsm_rows(_, _, _, _)
Trsm_rows(ta, tA, B, step) ==
  IF step >= ta.N THEN B
  ELSE Trsm_rows(ta, tA,
                 Trsm_row(ta, tA, B, IF Trsm_forward(ta, tA) THEN step
                                     ELSE ta.N - 1 - step),
                 step + 1)

\* blas64.Trsm(blas.Left, tA, 1, ta, B): B becomes the X with op(A) * X = B,
\* by substitution over the stored triangle of a non-unit triangular A
Trsm(tA, ta, B) == Trsm_rows(ta, tA, B, 0)

RECURSIVE TrsmAll(_, _, _)
\* the Trsm calls of flags, applied in order
TrsmAll(flags, ta, B) ==
  IF flags = <<>> THEN B ELSE TrsmAll(Tail(flags), ta, Trsm(Head(flags), ta, B))

\* what a solve leaves: the panic, the receiver, the Trsm calls made
Solved(f, m, calls) == [fault |-> f, m |-> m, trsm |-> calls]

\* changed: the right-hand side is copied in before the shapes are compared
Solve_prepare_copyFirst(m, n, b, isAlias) ==
  LET src == IF isAlias THEN m ELSE b
      ra == reuseAs(m, src.Rows, src.Cols)
      m1 == IF ra.fault = NoFault /\ ~isAlias THEN Copy(ra.val, b) ELSE ra.val
  IN IF n # src.Rows THEN Outcome(ErrShape, m1)
     ELSE IF ra.fault # NoFault THEN ra
     ELSE Outcome(NoFault, m1)

\* lines 85-94 and 115-124: the shape check, reuseAs, and the copy of b into
\* m unless b is m
Solve_prepare(m, n, b, isAlias) ==
  LET src == IF isAlias THEN m ELSE b IN
  IF n # src.Rows THEN Outcome(ErrShape, m)
  ELSE LET ra == reuseAs(m, src.Rows, src.Cols) IN
       IF ra.fault # NoFault THEN ra
       ELSE IF ~isAlias THEN Outcome(NoFault, Copy(ra.val, b))
       ELSE ra

\* changed: the upper case solves with U before U^T
SolveCholesky_order_swapped(uplo) ==
  CASE uplo = "Upper" -> <<"NoTrans", "Trans">>
    [] uplo = "Lower" -> <<"NoTrans", "Trans">>
    [] OTHER -> <<>>

\* lines 100-109: the Trsm calls per orientation (none: panic(badTriangle))
SolveCholesky_order(uplo) ==
  CASE uplo = "Upper" -> <<"Trans", "NoTrans">>
    [] uplo = "Lower" -> <<"NoTrans", "Trans">>
    [] OTHER -> <<>>

\* m.SolveCholesky(t, b)
SolveCholesky(m, t, b, isAlias) ==
  LET prep == Solve_prepare(m, t.N, b, isAlias) IN
  IF prep.fault # NoFault THEN Solved(prep.fault, prep.val, <<>>)
  ELSE LET ta == getBlasTriangular(t)
           flags == SolveCholesky_order(ta.Uplo)
       IN IF flags = <<>> THEN Solved(badTriangle, prep.val, <<>>)
          ELSE Solved(NoFault, TrsmAll(flags, ta, prep.val), flags)

\* m.SolveTri(a, trans, b)
SolveTri(m, a, trans, b, isAlias) ==
  LET prep == Solve_prepare(m, a.N, b, isAlias) IN
  IF prep.fault # NoFault THEN Solved(prep.fault, prep.val, <<>>)
  ELSE LET ta == getBlasTriangular(a)
           t == IF trans THEN "Trans" ELSE "NoTrans"
       IN IF ta.Uplo \in {"Upper", "Lower"}
          THEN Solved(NoFault, Trsm(t, ta, prep.val), <<t>>)
          ELSE Solved(badTriangle, prep.val, <<>>)

\* ---------------------------------------------------- specification: solves
\* A symmetric matrix is factorised, then one solve is called with the
\* receiver t of the factorisation as its triangular operand.
XScales == {-1, 2}

\* the exact solution drawn: X0[r,c] = s*(r+1) + c
SolutionOf(s, n, m) == [p \in Idx(n) \X Idx(m) |-> s * (p[1] + 1) + p[2]]

\* The right-hand side A * X0 as a Dense of stride m+1 with extra further rows;
\* the padding and the further rows hold Junk.
RhsOf(a, X0, m, extra) ==
  [Rows |-> a.N + extra, Cols |-> m, Stride |-> m + 1,
   Data |-> [i \in 0..((a.N + extra) * (m + 1) - 1) |->
               LET r == i \div (m + 1)
                   c == i % (m + 1)
                   term == [q \in Idx(a.N) |-> SymDense_at(a, r, q).v * X0[<<q, c>>]]
               IN IF r >= a.N \/ c >= m THEN Junk ELSE Num(SumTo(term, a.N))]]

ReceiverKinds == {"empty", "sized", "wrong", "alias"}

\* the receiver m a solve is called on, for the right-hand side b
ReceiverOf(kind, b) ==
  CASE kind = "empty" -> NoDense
    [] kind = "sized" -> [Rows |-> b.Rows, Cols |-> b.Cols, Stride |-> b.Cols,
                          Data |-> Ramp(b.Rows * b.Cols, 80)]
    [] kind = "wrong" -> [Rows |-> b.Rows + 1, Cols |-> b.Cols, Stride |-> b.Cols,
                          Data |-> Ramp((b.Rows + 1) * b.Cols, 80)]
    [] OTHER -> b

\* the triangular operand: t, or a Triangular whose raw matrix has no orientation
OperandOf(t, malformed) == IF malformed THEN [t EXCEPT !.Uplo = "Unset"] ELSE t

\* the inputs drawn for the factorisation that precedes a solve
SolveInputs ==
  UNION {{SymOf(Defective(L, n, n - 1, kind), n, n) :
            L \in LowerFactors(n), kind \in {"none", "zero"}} : n \in 1..MaxN}

InitSolve ==
  /\ sym \in SolveInputs
  /\ tri \in {EmptyTri, UsedTri(sym.N, sym.N + 1, "Lower")}
  /\ upper \in BOOLEAN
  /\ dn = NoDense /\ rhs = NoDense /\ alias = FALSE /\ vec = NoVec
  /\ pc = "idle" /\ j = 0 /\ k = 0 /\ d = Zero /\ ok = "none"
  /\ fault = NoFault /\ op = NoOp /\ ret = NoVal /\ old = NoOld
  /\ written = {} /\ stale = FALSE /\ dlog = <<>> /\ trsm = <<>> /\ sets = 0

\* the state a finished solve leaves
SolveDone(name, res, m0, b, operand, kind) ==
  /\ dn' = res.m
  /\ rhs' = IF kind = "alias" THEN res.m ELSE b
  /\ alias' = (kind = "alias")
  /\ tri' = operand
  /\ fault' = res.fault
  /\ trsm' = res.trsm
  /\ op' = Called(name, b.Rows, b.Cols, Zero)
  /\ old' = [dn |-> m0, rhs |-> b, vec |-> vec, sym |-> sym, tri |-> operand]
  /\ pc' = "solved"
  /\ UNCHANGED <<vec, sym, upper, j, k, d, ok, ret, written, stale, dlog, sets>>

\* m.SolveCholesky(t, b) is called
SolveCholeskyCall ==
  \E s \in XScales, m \in 1..MaxCols, extra \in 0..1, kind \in ReceiverKinds,
     malformed \in BOOLEAN :
    LET b == RhsOf(sym, SolutionOf(s, sym.N, m), m, extra)
        m0 == ReceiverOf(kind, b)
        operand == OperandOf(tri, malformed)
    IN /\ pc = "done"
       /\ SolveDone("SolveCholesky", SolveCholesky(m0, operand, b, kind = "alias"),
                    m0, b, operand, kind)

\* m.SolveTri(a, trans, b) is called
SolveTriCall ==
  \E s \in {2}, m \in 1..MaxCols, extra \in 0..1, kind \in ReceiverKinds,
     malformed \in BOOLEAN, trans \in BOOLEAN :
    LET b == RhsOf(sym, SolutionOf(s, sym.N, m), m, extra)
        m0 == ReceiverOf(kind, b)
        operand == OperandOf(tri, malformed)
    IN /\ pc = "done"
       /\ SolveDone(IF trans THEN "SolveTri.Trans" ELSE "SolveTri.NoTrans",
                    SolveTri(m0, operand, trans, b, kind = "alias"),
                    m0, b, operand, kind)

NextSolve ==
  \/ CholCall \/ CholInner \/ CholDiagFail \/ CholDiagWrite
  \/ SolveCholeskyCall \/ SolveTriCall

SpecSolve == InitSolve /\ [][NextSolve]_vars

\* ------------------------------------------ specification: indexed access
\* One view is exercised per behaviour; its buffer holds distinct numbers in
\* every slot, those outside the view's content included.
SetVal == Num(7)                          \* the value the Set calls write
Rng == -1..MaxN                           \* the row indices drawn
CRng == -1..(IF MaxCols > MaxN THEN MaxCols ELSE MaxN)   \* the column indices

DenseViews ==
  {[Rows |-> n, Cols |-> m, Stride |-> m + pad, Data |-> Ramp(n * (m + pad), 10)] :
     n \in 0..MaxN, m \in 1..MaxCols, pad \in 0..1}
VectorViews ==
  {[n |-> n, Inc |-> inc, Data |-> Ramp(n * inc, 20)] : n \in 0..MaxN, inc \in 1..2}
SymViews ==
  {[N |-> n, Stride |-> n + pad, Data |-> Ramp(n * (n + pad), 30)] :
     n \in 0..MaxN, pad \in 0..1}
TriViews ==
  {[N |-> n, Stride |-> n + pad, Uplo |-> u, Data |-> Ramp(n * (n + pad), 40)] :
     n \in 0..MaxN, pad \in 0..1, u \in {"Upper", "Lower"}}

InitAccess ==
  /\ \/ dn \in DenseViews /\ vec = NoVec /\ sym = NoSym /\ tri = EmptyTri
     \/ dn = NoDense /\ vec \in VectorViews /\ sym = NoSym /\ tri = EmptyTri
     \/ dn = NoDense /\ vec = NoVec /\ sym \in SymViews /\ tri = EmptyTri
     \/ dn = NoDense /\ vec = NoVec /\ sym = NoSym /\ tri \in TriViews
  /\ rhs = NoDense /\ alias = FALSE /\ upper = FALSE
  /\ pc = "idle" /\ j = 0 /\ k = 0 /\ d = Zero /\ ok = "none"
  /\ fault = NoFault /\ op = NoOp /\ ret = NoVal /\ old = NoOld
  /\ written = {} /\ stale = FALSE /\ dlog = <<>> /\ trsm = <<>> /\ sets = 0

AccessFrame == UNCHANGED <<rhs, alias, upper, pc, j, k, d, ok, written, stale, dlog, trsm>>

\* m.At(r, c) on the Dense
DenseAtCall ==
  \E r \in Rng, c \in CRng :
    /\ dn # NoDense
    /\ op' = Called("Dense.At", r, c, Zero)
    /\ fault' = Dense_At(dn, r, c).fault
    /\ ret' = Dense_At(dn, r, c).val
    /\ old' = Snapshot
    /\ UNCHANGED <<dn, vec, sym, tri, sets>> /\ AccessFrame

\* m.At(r, c) on the Vector
VectorAtCall ==
  \E r \in Rng, c \in CRng :
    /\ vec # NoVec
    /\ op' = Called("Vector.At", r, c, Zero)
    /\ fault' = Vector_At(vec, r, c).fault
    /\ ret' = Vector_At(vec, r, c).val
    /\ old' = Snapshot
    /\ UNCHANGED <<dn, vec, sym, tri, sets>> /\ AccessFrame

\* s.At(r, c) on the SymDense
SymAtCall ==
  \E r \in Rng, c \in CRng :
    /\ sym # NoSym
    /\ op' = Called("SymDense.At", r, c, Zero)
    /\ fault' = SymDense_At(sym, r, c).fault
    /\ ret' = SymDense_At(sym, r, c).val
    /\ old' = Snapshot
    /\ UNCHANGED <<dn, vec, sym, tri, sets>> /\ AccessFrame

\* s.SetSym(r, c, v)
SetSymCall ==
  \E r \in Rng, c \in CRng :
    /\ sym # NoSym /\ sets < MaxSets /\ sets' = sets + 1
    /\ op' = Called("SymDense.SetSym", r, c, SetVal)
    /\ fault' = SymDense_SetSym(sym, r, c, SetVal).fault
    /\ sym' = SymDense_SetSym(sym, r, c, SetVal).val
    /\ ret' = NoVal
    /\ old' = Snapshot
    /\ UNCHANGED <<dn, vec, tri>> /\ AccessFrame

\* t.At(r, c) on the TriDense
TriAtCall ==
  \E r \in Rng, c \in CRng :
    /\ tri # EmptyTri
    /\ op' = Called("TriDense.At", r, c, Zero)
    /\ fault' = TriDense_At(tri, r, c).fault
    /\ ret' = TriDense_At(tri, r, c).val
    /\ old' = Snapshot
    /\ UNCHANGED <<dn, vec, sym, tri, sets>> /\ AccessFrame

\* t.SetTri(r, c, v)
SetTriCall ==
  \E r \in Rng, c \in CRng :
    /\ tri # EmptyTri /\ sets < MaxSets /\ sets' = sets + 1
    /\ op' = Called("TriDense.SetTri", r, c, SetVal)
    /\ fault' = TriDense_SetTri(tri, r, c, SetVal).fault
    /\ tri' = TriDense_SetTri(tri, r, c, SetVal).val
    /\ ret' = NoVal
    /\ old' = Snapshot
    /\ UNCHANGED <<dn, vec, sym>> /\ AccessFrame

NextAccess ==
  DenseAtCall \/ VectorAtCall \/ SymAtCall \/ SetSymCall \/ TriAtCall \/ SetTriCall

SpecAccess == InitAccess /\ [][NextAccess]_vars

\* ------------------------------------------------ claims: indexed access
AtCalls == {"Dense.At", "Vector.At", "SymDense.At", "TriDense.At"}

\* the row and column counts of the view the last call was made on (a Vector
\* has the single column 0)
RowsOf(name) ==
  CASE name = "Dense.At" -> old.dn.Rows
    [] name = "Vector.At" -> old.vec.n
    [] name \in {"SymDense.At", "SymDense.SetSym"} -> old.sym.N
    [] OTHER -> old.tri.N
ColsOf(name) ==
  CASE name = "Dense.At" -> old.dn.Cols
    [] name = "Vector.At" -> 1
    [] name \in {"SymDense.At", "SymDense.SetSym"} -> old.sym.N
    [] OTHER -> old.tri.N

\* the last call's indices are inside its view
OpInRange ==
  /\ 0 <= op.r /\ op.r < RowsOf(op.name)
  /\ 0 <= op.c /\ op.c < ColsOf(op.name)

\* (r,c) is on the side of the diagonal that the triangle does not store
Inactive(t, r, c) ==
  \/ t.Uplo = "Upper" /\ r > c
  \/ t.Uplo = "Lower" /\ r < c

\* C4: At of a Dense, Vector, SymDense or TriDense panics with the row or
\* column range error exactly when an index is below 0 or not below its
\* dimension (for a Vector, when the column is not 0), on either side of a
\* triangle's diagonal, and returns a value otherwise.
C4_AtRangeCheck ==
  op.name \in AtCalls =>
    /\ OpInRange <=> fault = NoFault
    /\ ~OpInRange <=> fault \in {ErrRowAccess, ErrColAccess}
    /\ OpInRange <=> ret # NoVal

\* C4 happens: At(N, 0) on an upper triangle, on the side that reads as zero,
\* with the row exactly at the dimension
C4_Witness ==
  /\ op.name = "TriDense.At" /\ old.tri.Uplo = "Upper" /\ old.tri.N = 2
  /\ op.r = 2 /\ op.c = 0 /\ fault = ErrRowAccess

\* C5: on a triangle tagged Upper or Lower, SetTri at an in-range place on the
\* unstored side panics with the triangular-set error, which is neither range
\* error, and leaves the view as it was; At there returns 0 without a panic;
\* so every unstored element reads 0 after any calls.
C5_TriInactiveSide ==
  /\ ErrTriSet \notin {ErrRowAccess, ErrColAccess, NoFault}
  /\ \A r \in Idx(tri.N), c \in Idx(tri.N) :
       Inactive(tri, r, c) => TriDense_At(tri, r, c) = Outcome(NoFault, Zero)
  /\ (op.name = "TriDense.SetTri" /\ OpInRange /\ Inactive(old.tri, op.r, op.c)) =>
       /\ fault = ErrTriSet
       /\ tri = old.tri
  /\ (op.name = "TriDense.At" /\ OpInRange /\ Inactive(old.tri, op.r, op.c)) =>
       /\ fault = NoFault
       /\ ret = Zero

\* C5 happens: after a SetTri that wrote, SetTri(1, 0) on a 2 x 2 upper
\* triangle is refused
C5_Witness ==
  /\ op.name = "TriDense.SetTri" /\ op.r = 1 /\ op.c = 0
  /\ old.tri.Uplo = "Upper" /\ old.tri.N = 2 /\ fault = ErrTriSet
  /\ \E i \in DOMAIN tri.Data : tri.Data[i] = SetVal

\* the buffer slot of the pair (min(r,c), max(r,c))
CanonicalSlot(s, r, c) ==
  (IF r < c THEN r ELSE c) * s.Stride + (IF r < c THEN c ELSE r)

\* C6: a SymDense reads the same at (r,c) and (c,r) at all times; SetSym with
\* in-range indices succeeds, makes At(r,c) and At(c,r) return v, changes no
\* other element, and writes only the buffer slot of (min(r,c), max(r,c)); out
\* of range it panics and changes nothing.
C6_SymCoherence ==
  /\ \A r \in Idx(sym.N), c \in Idx(sym.N) :
       /\ SymDense_At(sym, r, c).fault = NoFault
       /\ SymDense_At(sym, r, c) = SymDense_At(sym, c, r)
  /\ op.name = "SymDense.SetSym" =>
       /\ OpInRange <=> fault = NoFault
       /\ ~OpInRange => sym = old.sym
       /\ OpInRange =>
            /\ SymDense_At(sym, op.r, op.c) = Outcome(NoFault, op.v)
            /\ SymDense_At(sym, op.c, op.r) = Outcome(NoFault, op.v)
            /\ \A r \in Idx(sym.N), c \in Idx(sym.N) :
                 {r, c} # {op.r, op.c} =>
                   SymDense_At(sym, r, c) = SymDense_At(old.sym, r, c)
            /\ sym.N = old.sym.N /\ sym.Stride = old.sym.Stride
            /\ DOMAIN sym.Data = DOMAIN old.sym.Data
            /\ \A i \in DOMAIN sym.Data :
                 i # CanonicalSlot(old.sym, op.r, op.c) =>
                   sym.Data[i] = old.sym.Data[i]

\* C6 happens: SetSym(2, 0, v) on a 3 x 3 view of stride 4, below the diagonal
C6_Witness ==
  /\ op.name = "SymDense.SetSym" /\ op.r = 2 /\ op.c = 0 /\ fault = NoFault
  /\ sym.N = 3 /\ sym.Stride = 4
  /\ SymDense_At(sym, 0, 2).val = SetVal

\* --------------------------------------------------------- claims: solves
SolveCalls == {"SolveCholesky", "SolveTri.Trans", "SolveTri.NoTrans"}

RECURSIVE FSumTo(_, _)
\* f[0] + ... + f[n-1] in float64
FSumTo(f, n) == IF n = 0 THEN Zero ELSE FAdd(FSumTo(f, n - 1), f[n - 1])

\* element (r,c) of a * x, for the SymDense a and the Dense x
SymTimes(a, x, r, c) ==
  FSumTo([q \in Idx(a.N) |-> FMul(SymDense_At(a, r, q).val, Dense_At(x, q, c).val)],
         a.N)

\* the receiver the last solve was called on could take the right-hand side
ReceiverFits ==
  \/ alias
  \/ old.dn = NoDense
  \/ old.dn.Rows = old.rhs.Rows /\ old.dn.Cols = old.rhs.Cols

\* C3: SolveCholesky with the factor of a successful Cholesky of A and a
\* right-hand side B = A*X0 of n rows does not panic and leaves in m the n x m
\* matrix X with A*X = B, having called Trsm with Trans then NoTrans for an
\* upper factor and NoTrans then Trans for a lower one; this holds when m is a
\* matrix of its own (B is then left as it was) and when m is B itself.
C3_CholeskySolveRoundTrip ==
  (/\ pc = "solved" /\ op.name = "SolveCholesky"
   /\ ok = "true" /\ old.tri.Uplo # "Unset"
   /\ old.rhs.Rows = sym.N
   /\ ReceiverFits)
  => /\ fault = NoFault
     /\ dn.Rows = sym.N /\ dn.Cols = old.rhs.Cols
     /\ trsm = IF upper THEN <<"Trans", "NoTrans">> ELSE <<"NoTrans", "Trans">>
     /\ \A r \in Idx(dn.Rows), c \in Idx(dn.Cols) :
          /\ Dense_At(dn, r, c).fault = NoFault
          /\ SymTimes(sym, dn, r, c) = Dense_At(old.rhs, r, c).val
     /\ ~alias => rhs = old.rhs
     /\ alias => rhs = dn

\* C3 happens: a 3 x 3 upper factor of stride 4, a right-hand side of two
\* columns that is the receiver itself, and the solution 2*(r+1)+c in it
C3_Witness ==
  /\ pc = "solved" /\ op.name = "SolveCholesky" /\ fault = NoFault
  /\ alias /\ upper /\ sym.N = 3 /\ old.tri.Stride = 4 /\ dn.Cols = 2
  /\ Dense_At(dn, 2, 1).val = Num(7) /\ Dense_At(dn, 0, 0).val = Num(2)
  /\ old.rhs # dn

\* the same with a receiver of its own that held other numbers
C3_WitnessDistinct ==
  /\ pc = "solved" /\ op.name = "SolveCholesky" /\ fault = NoFault
  /\ ~alias /\ ~upper /\ sym.N = 3 /\ old.dn # NoDense /\ dn.Cols = 2
  /\ Dense_At(dn, 2, 1).val = Num(-2)

\* C10 as stated: a solve that panics because the right-hand side has not n
\* rows, or because the triangle has no orientation, leaves the receiver as it
\* was and has called no Trsm.
C10_FaultLeavesReceiver ==
  (/\ op.name \in SolveCalls
   /\ \/ fault = badTriangle
      \/ fault = ErrShape /\ old.rhs.Rows # old.tri.N)
  => /\ dn = old.dn
     /\ trsm = <<>>

\* C10 amended: a solve that panics with ErrShape leaves the receiver as it was
\* and has called no Trsm; a solve that panics with the invalid-triangle
\* message has called no Trsm either, but the receiver by then has the
\* dimensions of the right-hand side and reads as a copy of it (it is as it
\* was only when it is the right-hand side itself).  The shape panic happens
\* exactly when the rows differ from n or the receiver cannot take the
\* right-hand side, the triangle panic exactly when neither is so and the
\* orientation is neither Upper nor Lower.
C10_FaultBeforeTrsm ==
  op.name \in SolveCalls =>
    /\ fault \in {NoFault, ErrShape, badTriangle}
    /\ fault = ErrShape <=> (old.rhs.Rows # old.tri.N \/ ~ReceiverFits)
    /\ fault = badTriangle <=>
         (old.rhs.Rows = old.tri.N /\ ReceiverFits /\ old.tri.Uplo = "Unset")
    /\ fault = ErrShape => (dn = old.dn /\ trsm = <<>>)
    /\ fault = badTriangle =>
         /\ trsm = <<>>
         /\ alias => dn = old.dn
         /\ dn.Rows = old.rhs.Rows /\ dn.Cols = old.rhs.Cols
         /\ \A r \in Idx(dn.Rows), c \in Idx(dn.Cols) :
              Dense_At(dn, r, c) = Dense_At(old.rhs, r, c)
    /\ fault = NoFault => trsm # <<>>

\* C10 happens: SolveCholesky with a 3 x 3 triangle without orientation and a
\* receiver of the right size that held other numbers: the panic leaves the
\* receiver changed
C10_Witness ==
  /\ op.name = "SolveCholesky" /\ fault = badTriangle
  /\ old.tri.N = 3 /\ ~alias /\ old.dn # NoDense /\ dn # old.dn

\* the shape panic of C10 happens too: a right-hand side of 4 rows for a 3 x 3
\* triangle, SolveTri
C10_WitnessShape ==
  /\ op.name = "SolveTri.Trans" /\ fault = ErrShape
  /\ old.tri.N = 3 /\ old.rhs.Rows = 4 /\ old.dn # NoDense /\ ~alias

====
